---- MODULE Spec2Model ----
(***************************************************************************)
(* IBM Model 4 (nltk/align/ibm4.py): the constructor of IBMModel4, its     *)
(* initialisation of the distortion tables, and the EM training step       *)
(* (train = E step over the corpus, then the M step).                      *)
(*                                                                         *)
(* Probabilities are Python floats in the program.  They are modelled as   *)
(* exact rationals <<n, d>> in lowest terms with d > 0, so rounding is not *)
(* modelled.  IBMModel.MIN_PROB is 1.0e-12 in the program; TLC's integers  *)
(* are 32 bits wide, so the floor is modelled as 1 / MinProbInv for a      *)
(* small MinProbInv.  No definition below depends on the floor's value     *)
(* other than through MIN_PROB.                                            *)
(*                                                                         *)
(* A table is a defaultdict: a finite map of stored entries plus a default *)
(* for absent keys.  It is modelled as a function whose DOMAIN is the set  *)
(* of stored keys, read through Lookup.  (A defaultdict read also stores   *)
(* the default under the key read; that changes no readable value and is   *)
(* not modelled.)  Nested keys t[a][b][c] are the tuple <<a, b, c>>.       *)
(***************************************************************************)
EXTENDS Integers, Sequences, FiniteSets, TLC

(***************************************************************************)
(* Bounds of the model.                                                    *)
(***************************************************************************)
MinProbInv == 3
MaxIterations == 2
MaxSamples == 2
MaxWork == 4

(***************************************************************************)
(* Rational arithmetic (Python float arithmetic, without rounding).        *)
(***************************************************************************)
Abs(x) == IF x < 0 THEN -x ELSE x

RECURSIVE Gcd(_, _)
Gcd(a, b) == IF b = 0 THEN a ELSE Gcd(b, a % b)

Rat(n, d) ==
  LET g == Gcd(Abs(n), Abs(d))
      s == IF d < 0 THEN -1 ELSE 1
  IN  <<(s * n) \div g, (s * d) \div g>>

Zero == <<0, 1>>
One == <<1, 1>>
FromInt(n) == <<n, 1>>
Add(x, y) == Rat(x[1] * y[2] + y[1] * x[2], x[2] * y[2])
Sub(x, y) == Rat(x[1] * y[2] - y[1] * x[2], x[2] * y[2])
Mul(x, y) == Rat(x[1] * y[1], x[2] * y[2])
\* x / y for y # 0 (a zero divisor raises ZeroDivisionError; callers test it)
Div(x, y) == Rat(x[1] * y[2], x[2] * y[1])
Lt(x, y) == x[1] * y[2] < y[1] * x[2]
Le(x, y) == x[1] * y[2] <= y[1] * x[2]
\* Python's max(x, y) and min(x, y)
Max(x, y) == IF Lt(x, y) THEN y ELSE x
Min(x, y) == IF Lt(y, x) THEN y ELSE x

RECURSIVE PowNat(_, _)
PowNat(x, n) == IF n = 0 THEN One ELSE Mul(x, PowNat(x, n - 1))
\* pow(x, n) for an integer n; x # 0 when n < 0
Pow(x, n) == IF n >= 0 THEN PowNat(x, n) ELSE PowNat(Div(One, x), -n)

RECURSIVE factorial(_)
factorial(n) == IF n <= 0 THEN 1 ELSE n * factorial(n - 1)

\* ceil(n / d) for n >= 0, d > 0
Ceil(n, d) == (n + d - 1) \div d

RECURSIVE SumSet(_)
SumSet(S) == IF S = {} THEN 0 ELSE LET x == CHOOSE y \in S : TRUE
                                   IN  x + SumSet(S \ {x})

MIN_PROB == <<1, MinProbInv>>

(***************************************************************************)
(* Tables.                                                                 *)
(***************************************************************************)
EmptyTable == <<>>
\* table[key] of a defaultdict with default dflt
Lookup(table, key, dflt) == IF key \in DOMAIN table THEN table[key] ELSE dflt
\* table[key] = value
Store(table, key, value) ==
  [x \in DOMAIN table \cup {key} |-> IF x = key THEN value ELSE table[x]]
\* table[key] += value, for a defaultdict of 0.0
Accumulate(table, key, value) == Store(table, key, Add(Lookup(table, key, Zero), value))

(***************************************************************************)
(* Words, word classes and sentence pairs.  None is the NULL source word   *)
(* (src_sentence[0]); NoClass is the key None of the head distortion       *)
(* table, used when a head word has no previous cept.  Word classes are    *)
(* integer ids >= 0.                                                       *)
(***************************************************************************)
None == "None"
NoClass == -1

AlignedSent(words, mots) == [words |-> words, mots |-> mots]

\* src_sentence = [None] + mots, positions 0 .. l
SrcWord(sent, i) == IF i = 0 THEN None ELSE sent.mots[i]
\* trg_sentence = ['UNUSED'] + words, positions 1 .. m
TrgWord(sent, j) == sent.words[j]

(***************************************************************************)
(* AlignmentInfo (nltk/align/ibm_model.py, outside this file): a candidate *)
(* alignment a of one sentence pair maps each target position 1 .. m to a  *)
(* source position 0 .. l.  cepts[i], the tablet of i, lists the target    *)
(* positions aligned to i in increasing order and is derived from a, so    *)
(* every candidate satisfies the cept invariants.                          *)
(***************************************************************************)
NoCept == 0

SetMin(S) == CHOOSE x \in S : \A y \in S : x <= y
SetMax(S) == CHOOSE x \in S : \A y \in S : y <= x

\* cepts[i], as the set of its (increasing) positions
Tablet(a, i) == {j \in DOMAIN a : a[j] = i}
fertility_of_i(a, i) == Cardinality(Tablet(a, i))
is_head_word(a, j) == j = SetMin(Tablet(a, a[j]))
\* the nearest source position before a[j] with fertility > 0, or None (NoCept)
previous_cept(a, j) ==
  LET before == {i \in 1 .. (a[j] - 1) : fertility_of_i(a, i) > 0}
  IN  IF before = {} THEN NoCept ELSE SetMax(before)
\* ceiling of the mean of the tablet's positions; 0 for None
center_of_cept(a, i) ==
  IF i = NoCept THEN 0
  ELSE Ceil(SumSet(Tablet(a, i)), Cardinality(Tablet(a, i)))
\* the position before j in j's tablet (j is not a head word)
previous_in_tablet(a, j) == SetMax({x \in Tablet(a, a[j]) : x < j})

\* every alignment of a sentence pair
Alignments(sent) == [1 .. Len(sent.words) -> 0 .. Len(sent.mots)]

RECURSIVE SubsetsUpTo(_, _)
SubsetsUpTo(S, n) ==
  IF n = 0 THEN {{}}
  ELSE LET P == SubsetsUpTo(S, n - 1) IN P \cup {T \cup {x} : T \in P, x \in S}

\* IBMModel.sample (outside this file): a bounded, non-empty set of candidates
SampleSets(sent) == SubsetsUpTo(Alignments(sent), MaxSamples) \ {{}}

(***************************************************************************)
(* State.  corpus, iterations, src_classes, trg_classes and                *)
(* probability_tables are the constructor's arguments.  The six tables and *)
(* p1 are the model's parameters.  counts, n, sampled_alignments and       *)
(* total_count are train's locals: the Counts object, the number of        *)
(* sentence pairs whose candidates have been sampled, the candidates of    *)
(* the current pair not yet collected, and the pair's normaliser.  k is    *)
(* the constructor's loop index, pc the position in the constructor, err   *)
(* the exception that ended it, warned whether warnings.warn was called.   *)
(***************************************************************************)
VARIABLES corpus, iterations, src_classes, trg_classes, probability_tables,
          translation_table, alignment_table, fertility_table, p1,
          head_distortion_table, non_head_distortion_table,
          counts, n, sampled_alignments, total_count, k, pc, err, warned

inputs == <<corpus, iterations, src_classes, trg_classes, probability_tables>>
tables == <<translation_table, fertility_table, p1,
            head_distortion_table, non_head_distortion_table>>
locals == <<counts, n, sampled_alignments, total_count>>
vars == <<inputs, tables, alignment_table, locals, k, pc, err, warned>>

(***************************************************************************)
(* prob_t_a_given_s: probability of the target sentence and the alignment  *)
(* a given the source sentence, read from the current tables.              *)
(***************************************************************************)
RECURSIVE Combination(_, _, _, _)
\* for i in range(from, null_fertility + 1): value *= (m - null_fertility - i + 1) / i
Combination(value, m, null_fertility, from) ==
  IF from > null_fertility THEN value
  ELSE Combination(Mul(value, Rat(m - null_fertility - from + 1, from)),
                   m, null_fertility, from + 1)

\* pow(p1, null_fertility) * pow(p0, m - 2 * null_fertility)
NullPowers(sent, a) ==
  LET p0 == Sub(One, p1)
      null_fertility == fertility_of_i(a, 0)
      m == Len(sent.words)
  IN  Mul(Pow(p1, null_fertility), Pow(p0, m - 2 * null_fertility))

\* null_generation_term without the loop that multiplies in the combination
null_generation_term_without_combination(sent, a) ==
  LET value == NullPowers(sent, a)
  IN  IF Lt(value, MIN_PROB) THEN MIN_PROB ELSE value

null_generation_term(sent, a) ==
  LET value == NullPowers(sent, a)
  IN  IF Lt(value, MIN_PROB) THEN MIN_PROB
      ELSE Combination(value, Len(sent.words), fertility_of_i(a, 0), 1)

\* factorial(fertility) * self.fertility_table[fertility][src_sentence[i]]
FertilityFactor(sent, a, i) ==
  LET fertility == fertility_of_i(a, i)
  IN  Mul(FromInt(factorial(fertility)),
          Lookup(fertility_table, <<fertility, SrcWord(sent, i)>>, MIN_PROB))

RECURSIVE FertilityFrom(_, _, _, _)
FertilityFrom(sent, a, i, value) ==
  IF i > Len(sent.mots) THEN value
  ELSE LET v == Mul(value, FertilityFactor(sent, a, i))
       IN  IF Lt(v, MIN_PROB) THEN MIN_PROB
           ELSE FertilityFrom(sent, a, i + 1, v)

fertility_term(sent, a) == FertilityFrom(sent, a, 1, One)

lexical_translation_term(sent, a, j) ==
  Lookup(translation_table, <<TrgWord(sent, j), SrcWord(sent, a[j])>>, MIN_PROB)

\* dj of a head word j and of a non-head word j
HeadDisplacement(a, j) == j - center_of_cept(a, previous_cept(a, j))
NonHeadDisplacement(a, j) == j - previous_in_tablet(a, j)

\* the class lookups of position j raise KeyError
MissingClass(sent, a, j) ==
  /\ a[j] # 0
  /\ \/ TrgWord(sent, j) \notin DOMAIN trg_classes
     \/ /\ is_head_word(a, j)
        /\ previous_cept(a, j) # NoCept
        /\ SrcWord(sent, previous_cept(a, j)) \notin DOMAIN src_classes

\* src_class of a head word j: the class of the previous cept's word, or None
HeadSrcClass(sent, a, j) ==
  IF previous_cept(a, j) = NoCept THEN NoClass
  ELSE src_classes[SrcWord(sent, previous_cept(a, j))]

\* the value distortion_term(j) returns when its class lookups succeed
distortion_term(sent, a, j) ==
  IF a[j] = 0 THEN One
  ELSE IF is_head_word(a, j)
       THEN Lookup(head_distortion_table,
                   <<HeadDisplacement(a, j), HeadSrcClass(sent, a, j),
                     trg_classes[TrgWord(sent, j)]>>, MIN_PROB)
       ELSE Lookup(non_head_distortion_table,
                   <<NonHeadDisplacement(a, j), trg_classes[TrgWord(sent, j)]>>,
                   MIN_PROB)

\* The loop over j of prob_t_a_given_s from position j on, with the running
\* product.  The result records the value returned, whether KeyError was
\* raised instead, and whether an early return was taken.
Outcome(value, raised, aborted) == [value |-> value, raised |-> raised, aborted |-> aborted]

RECURSIVE PositionsFrom(_, _, _, _)
PositionsFrom(sent, a, j, probability) ==
  IF j > Len(sent.words) THEN Outcome(probability, FALSE, FALSE)
  ELSE LET lex == Mul(probability, lexical_translation_term(sent, a, j))
       IN  IF Lt(lex, MIN_PROB) THEN Outcome(MIN_PROB, FALSE, TRUE)
           ELSE IF MissingClass(sent, a, j) THEN Outcome(Zero, TRUE, FALSE)
           ELSE LET dist == Mul(lex, distortion_term(sent, a, j))
                IN  IF Lt(dist, MIN_PROB) THEN Outcome(MIN_PROB, FALSE, TRUE)
                    ELSE PositionsFrom(sent, a, j + 1, dist)

Score(sent, a) ==
  LET afterNull == Mul(One, null_generation_term(sent, a))
  IN  IF Lt(afterNull, MIN_PROB) THEN Outcome(MIN_PROB, FALSE, TRUE)
      ELSE LET afterFertility == Mul(afterNull, fertility_term(sent, a))
           IN  IF Lt(afterFertility, MIN_PROB) THEN Outcome(MIN_PROB, FALSE, TRUE)
               ELSE PositionsFrom(sent, a, 1, afterFertility)

prob_t_a_given_s(sent, a) == Score(sent, a).value

\* prob_of_alignments: the sum over the candidates (when none raises)
RECURSIVE prob_of_alignments(_, _)
prob_of_alignments(sent, alignments) ==
  IF alignments = {} THEN Zero
  ELSE LET a == CHOOSE x \in alignments : TRUE
       IN  Add(prob_t_a_given_s(sent, a), prob_of_alignments(sent, alignments \ {a}))

(***************************************************************************)
(* Counts: the counts of one training iteration.                           *)
(***************************************************************************)
Counts ==
  [t_given_s |-> EmptyTable, any_t_given_s |-> EmptyTable,
   head_distortion |-> EmptyTable, head_distortion_for_any_dj |-> EmptyTable,
   non_head_distortion |-> EmptyTable, non_head_distortion_for_any_dj |-> EmptyTable,
   p0 |-> Zero, p1 |-> Zero,
   fertility |-> EmptyTable, fertility_for_any_phi |-> EmptyTable,
   null |-> 0]

\* update_lexical_translation with the marginal kept under the target word
update_lexical_translation_marginal_by_target(c, count, sent, a, j) ==
  LET t == TrgWord(sent, j)
      s == SrcWord(sent, a[j])
  IN  [c EXCEPT !.t_given_s = Accumulate(@, <<t, s>>, count),
                !.any_t_given_s = Accumulate(@, <<t>>, count)]

update_lexical_translation(c, count, sent, a, j) ==
  LET t == TrgWord(sent, j)
      s == SrcWord(sent, a[j])
  IN  [c EXCEPT !.t_given_s = Accumulate(@, <<t, s>>, count),
                !.any_t_given_s = Accumulate(@, <<s>>, count)]

\* update_distortion when the class lookups of j succeed
update_distortion(c, count, sent, a, j) ==
  IF a[j] = 0 THEN [c EXCEPT !.null = @ + 1]
  ELSE IF is_head_word(a, j)
       THEN LET src_class == HeadSrcClass(sent, a, j)
                trg_class == trg_classes[TrgWord(sent, j)]
                dj == HeadDisplacement(a, j)
            IN  [c EXCEPT
                   !.head_distortion = Accumulate(@, <<dj, src_class, trg_class>>, count),
                   !.head_distortion_for_any_dj =
                       Accumulate(@, <<src_class, trg_class>>, count)]
       ELSE LET trg_class == trg_classes[TrgWord(sent, j)]
                dj == NonHeadDisplacement(a, j)
            IN  [c EXCEPT
                   !.non_head_distortion = Accumulate(@, <<dj, trg_class>>, count),
                   !.non_head_distortion_for_any_dj = Accumulate(@, <<trg_class>>, count)]

update_null_generation(c, count, sent, a) ==
  LET m == Len(sent.words)
  IN  [c EXCEPT !.p1 = Add(@, Mul(FromInt(c.null), count)),
                !.p0 = Add(@, Mul(FromInt(m - 2 * c.null), count))]

RECURSIVE FertilityCountsFrom(_, _, _, _, _)
FertilityCountsFrom(c, count, sent, a, i) ==
  IF i > Len(sent.mots) THEN c
  ELSE LET s == SrcWord(sent, i)
           fertility == Cardinality(Tablet(a, i))
       IN  FertilityCountsFrom(
             [c EXCEPT !.fertility = Accumulate(@, <<fertility, s>>, count),
                       !.fertility_for_any_phi = Accumulate(@, <<s>>, count)],
             count, sent, a, i + 1)

update_fertility(c, count, sent, a) == FertilityCountsFrom(c, count, sent, a, 0)

\* for j in range(1, m + 1): update_lexical_translation; update_distortion
RECURSIVE PositionCountsFrom(_, _, _, _, _)
PositionCountsFrom(c, count, sent, a, j) ==
  IF j > Len(sent.words) THEN c
  ELSE PositionCountsFrom(
         update_distortion(update_lexical_translation(c, count, sent, a, j),
                           count, sent, a, j),
         count, sent, a, j + 1)

\* CollectCounts without "counts.null = 0"
CollectCountsWithoutReset(c, normalized_count, sent, a) ==
  LET positions == PositionCountsFrom(c, normalized_count, sent, a, 1)
      nulls == update_null_generation(positions, normalized_count, sent, a)
  IN  update_fertility(nulls, normalized_count, sent, a)

\* E step (b) for one candidate, when no lookup raises (train, lines 286-298)
CollectCounts(c, normalized_count, sent, a) ==
  LET reset == [c EXCEPT !.null = 0]
      positions == PositionCountsFrom(reset, normalized_count, sent, a, 1)
      nulls == update_null_generation(positions, normalized_count, sent, a)
  IN  update_fertility(nulls, normalized_count, sent, a)

(***************************************************************************)
(* Initialisation of the tables.                                           *)
(***************************************************************************)
Half == <<1, 2>>

\* IBMModel.reset_probabilities (outside this file): fresh floor-defaulted
\* tables and the initial p1
BaseResetProbabilities ==
  [translation_table |-> EmptyTable, alignment_table |-> EmptyTable,
   fertility_table |-> EmptyTable, p1 |-> Half]

\* IBMModel4.reset_probabilities: the base tables plus fresh distortion tables
reset_probabilities ==
  [translation_table |-> BaseResetProbabilities.translation_table,
   alignment_table |-> BaseResetProbabilities.alignment_table,
   fertility_table |-> BaseResetProbabilities.fertility_table,
   p1 |-> BaseResetProbabilities.p1,
   head_distortion_table |-> EmptyTable,
   non_head_distortion_table |-> EmptyTable]

get_unique_word_classes(word_classes_table) ==
  {word_classes_table[w] : w \in DOMAIN word_classes_table}

RECURSIVE LongestFrom(_, _, _)
LongestFrom(sentence_aligned_corpus, i, max_m) ==
  IF i > Len(sentence_aligned_corpus) THEN max_m
  ELSE LET m == Len(sentence_aligned_corpus[i].words)
       IN  LongestFrom(sentence_aligned_corpus, i + 1, IF m > max_m THEN m ELSE max_m)

longest_target_sentence_length(sentence_aligned_corpus) ==
  LongestFrom(sentence_aligned_corpus, 1, 0)

\* initial_prob of set_uniform_distortion_probabilities
InitialProb(max_m) ==
  IF max_m <= 1 THEN MIN_PROB ELSE Div(One, FromInt(2 * (max_m - 1)))

\* the displacements dj and -dj for dj in range(1, max_m)
UniformDisplacements(max_m) == {dj \in (1 - max_m) .. (max_m - 1) : dj # 0}

\* the source class keys the loops of set_uniform_distortion_probabilities set
UniformSrcClasses == get_unique_word_classes(src_classes)

\* set_uniform_distortion_probabilities, applied to the distortion tables
\* head and non_head: the tables it leaves and whether it warned
set_uniform_distortion_probabilities(head, non_head, sentence_aligned_corpus) ==
  LET max_m == longest_target_sentence_length(sentence_aligned_corpus)
      initial_prob == InitialProb(max_m)
      trg_cls == get_unique_word_classes(trg_classes)
      headKeys == {<<dj, s_cls, t_cls>> : dj \in UniformDisplacements(max_m),
                                          s_cls \in UniformSrcClasses, t_cls \in trg_cls}
      nonHeadKeys == {<<dj, t_cls>> : dj \in UniformDisplacements(max_m), t_cls \in trg_cls}
  IN  [head_distortion_table |->
         [x \in DOMAIN head \cup headKeys |->
            IF x \in headKeys THEN initial_prob ELSE head[x]],
       non_head_distortion_table |->
         [x \in DOMAIN non_head \cup nonHeadKeys |->
            IF x \in nonHeadKeys THEN initial_prob ELSE non_head[x]],
       warned |-> Lt(initial_prob, MIN_PROB)]

(***************************************************************************)
(* M step.  Each maximize_* routine assigns max(count / marginal,          *)
(* MIN_PROB) under every key of the counts, onto the table it is given     *)
(* (train gives it the freshly reset table).  A zero marginal raises       *)
(* ZeroDivisionError.                                                      *)
(***************************************************************************)
\* the marginal's key: the count's key without its first component
\* (any_t_given_s[s] for t_given_s[t][s], fertility_for_any_phi[s] for
\* fertility[phi][s], ..._for_any_dj[...] for ...distortion[dj][...])
MarginalKey(x) == Tail(x)

\* Maximized without the clamp "max(estimate, IBMModel.MIN_PROB)"
MaximizedUnfloored(table, count, marginal) ==
  [x \in DOMAIN table \cup DOMAIN count |->
     IF x \in DOMAIN count
     THEN Div(count[x], marginal[MarginalKey(x)])
     ELSE table[x]]

Maximized(table, count, marginal) ==
  [x \in DOMAIN table \cup DOMAIN count |->
     IF x \in DOMAIN count
     THEN Max(Div(count[x], marginal[MarginalKey(x)]), MIN_PROB)
     ELSE table[x]]

ZeroMarginal(count, marginal) ==
  \E x \in DOMAIN count : Lookup(marginal, MarginalKey(x), Zero) = Zero

maximize_lexical_translation_probabilities(table, c) ==
  Maximized(table, c.t_given_s, c.any_t_given_s)

maximize_head_distortion_probabilities(table, c) ==
  Maximized(table, c.head_distortion, c.head_distortion_for_any_dj)

maximize_non_head_distortion_probabilities(table, c) ==
  Maximized(table, c.non_head_distortion, c.non_head_distortion_for_any_dj)

maximize_fertility_probabilities(table, c) ==
  Maximized(table, c.fertility, c.fertility_for_any_phi)

\* maximize_null_generation_probabilities without the clip at 1 - MIN_PROB
maximize_null_generation_unclipped(c) == Max(Div(c.p1, Add(c.p1, c.p0)), MIN_PROB)

\* p1_estimate = counts.p1 / (counts.p1 + counts.p0), clipped
maximize_null_generation_probabilities(c) ==
  LET p1_estimate == Max(Div(c.p1, Add(c.p1, c.p0)), MIN_PROB)
  IN  Min(p1_estimate, Sub(One, MIN_PROB))

\* the first routine of the M step that divides by zero, or "none"
MStepDivisionByZero(c) ==
  IF ZeroMarginal(c.t_given_s, c.any_t_given_s) THEN "lexical"
  ELSE IF \/ ZeroMarginal(c.head_distortion, c.head_distortion_for_any_dj)
          \/ ZeroMarginal(c.non_head_distortion, c.non_head_distortion_for_any_dj)
       THEN "distortion"
  ELSE IF ZeroMarginal(c.fertility, c.fertility_for_any_phi) THEN "fertility"
  ELSE IF Add(c.p1, c.p0) = Zero THEN "null_generation"
  ELSE "none"

\* train without "self.reset_probabilities()": the M step writes onto the
\* tables of the previous iteration
KeptForMStep ==
  [translation_table |-> translation_table, alignment_table |-> alignment_table,
   fertility_table |-> fertility_table, p1 |-> p1,
   head_distortion_table |-> head_distortion_table,
   non_head_distortion_table |-> non_head_distortion_table]

\* train, line 303: self.reset_probabilities()
ResetForMStep == reset_probabilities

\* train without "self.alignment_table = existing_alignment_table"
ResetAlignmentTable(existing_alignment_table, reset) == reset.alignment_table

\* train, lines 302-305: the alignment table the M step leaves
RetainedAlignmentTable(existing_alignment_table, reset) == existing_alignment_table

(***************************************************************************)
(* The constructor's arguments.                                            *)
(***************************************************************************)
Sentences ==
  { AlignedSent(<<>>, <<"a">>),
    AlignedSent(<<"x">>, <<"a">>),
    AlignedSent(<<"x", "y">>, <<"a">>),
    AlignedSent(<<"x", "y", "x">>, <<"a", "b">>) }

RECURSIVE TargetWords(_)
TargetWords(c) == IF c = <<>> THEN 0 ELSE Len(Head(c).words) + TargetWords(Tail(c))

\* the corpora: none, one sentence pair, or two pairs of at most two target
\* words each
Corpora ==
  {<<>>} \cup {<<s>> : s \in Sentences}
         \cup {<<s, t>> : s, t \in {x \in Sentences : Len(x.words) <= 2}}

\* word class lookups: complete ones, and ones that miss a word of the corpus
SrcClassLookups == { [w \in {"a", "b"} |-> IF w = "a" THEN 0 ELSE 1], [w \in {"a"} |-> 0] }
TrgClassLookups == { [w \in {"x", "y"} |-> IF w = "x" THEN 0 ELSE 1], [w \in {"x"} |-> 0] }

AnAlignmentTable == [x \in {<<0, 1, 1, 1>>, <<1, 1, 1, 1>>} |-> Half]

\* IBMModel3(sentence_aligned_corpus, iterations) (outside this file): the
\* tables a trained Model 3 hands over, every value at least the floor
IBMModel3 ==
  { [translation_table |-> EmptyTable, alignment_table |-> AnAlignmentTable,
     fertility_table |-> EmptyTable, p1 |-> Half],
    [translation_table |-> [x \in {"x", "y"} \X {None, "a", "b"} |-> Half],
     alignment_table |-> AnAlignmentTable,
     fertility_table |-> [x \in (0 .. 2) \X {None, "a", "b"} |-> Half],
     p1 |-> Sub(One, MIN_PROB)] }

\* a caller's probability_tables (values of the caller's choosing)
SuppliedTables ==
  { [translation_table |-> [x \in {"x", "y"} \X {None, "a", "b"} |-> One],
     alignment_table |-> [x \in {<<1, 2, 1, 2>>} |-> One],
     fertility_table |-> [x \in (0 .. 2) \X {None, "a", "b"} |-> One],
     p1 |-> Half,
     head_distortion_table |->
        [x \in {<<1, NoClass, 0>>, <<2, NoClass, 1>>, <<1, 0, 0>>, <<3, 1, 1>>} |-> One],
     non_head_distortion_table |-> [x \in {<<1, 1>>, <<3, 0>>} |-> One]] }

(***************************************************************************)
(* The constructor IBMModel4.__init__.                                     *)
(***************************************************************************)
Init ==
  /\ corpus \in Corpora
  /\ iterations \in 0 .. MaxIterations
  /\ iterations * TargetWords(corpus) <= MaxWork
  /\ src_classes \in SrcClassLookups
  /\ trg_classes \in TrgClassLookups
  /\ probability_tables \in {<<>>} \cup {<<t>> : t \in SuppliedTables}
  \* line 177: self.reset_probabilities()
  /\ translation_table = reset_probabilities.translation_table
  /\ alignment_table = reset_probabilities.alignment_table
  /\ fertility_table = reset_probabilities.fertility_table
  /\ p1 = reset_probabilities.p1
  /\ head_distortion_table = reset_probabilities.head_distortion_table
  /\ non_head_distortion_table = reset_probabilities.non_head_distortion_table
  /\ counts = Counts
  /\ n = 0
  /\ sampled_alignments = {}
  /\ total_count = Zero
  /\ k = 0
  /\ pc = "construct"
  /\ err = "none"
  /\ warned = FALSE

\* the constructor's loop with one pass too many
AfterPassOffByOne(passes) == IF passes <= iterations THEN "train" ELSE "done"

\* the position after the k-th pass of "for k in range(0, iterations)"
AfterPass(passes) == IF passes < iterations THEN "train" ELSE "done"

\* lines 181-198: take the tables from Model 3 and set the distortion tables
\* uniformly, or take the caller's tables
Construct ==
  /\ pc = "construct"
  /\ IF probability_tables = <<>>
     THEN \E ibm3 \in IBMModel3 :
            LET uniform == set_uniform_distortion_probabilities(
                             head_distortion_table, non_head_distortion_table, corpus)
            IN  /\ translation_table' = ibm3.translation_table
                /\ alignment_table' = ibm3.alignment_table
                /\ fertility_table' = ibm3.fertility_table
                /\ p1' = ibm3.p1
                /\ head_distortion_table' = uniform.head_distortion_table
                /\ non_head_distortion_table' = uniform.non_head_distortion_table
                /\ warned' = uniform.warned
     ELSE /\ translation_table' = probability_tables[1].translation_table
          /\ alignment_table' = probability_tables[1].alignment_table
          /\ fertility_table' = probability_tables[1].fertility_table
          /\ p1' = probability_tables[1].p1
          /\ head_distortion_table' = probability_tables[1].head_distortion_table
          /\ non_head_distortion_table' = probability_tables[1].non_head_distortion_table
          /\ warned' = warned
  /\ pc' = AfterPass(0)
  /\ UNCHANGED <<inputs, locals, k, err>>

\* train, line 271: counts = Counts()
Train ==
  /\ pc = "train"
  /\ counts' = Counts
  /\ n' = 0
  /\ sampled_alignments' = {}
  /\ total_count' = Zero
  /\ pc' = "corpus"
  /\ UNCHANGED <<inputs, tables, alignment_table, k, err, warned>>

\* train, lines 273-282: the next sentence pair is sampled and its
\* normaliser computed; a class lookup that fails while scoring raises
Sample ==
  /\ pc = "corpus"
  /\ n < Len(corpus)
  /\ \E alignments \in SampleSets(corpus[n + 1]) :
       IF \E a \in alignments : Score(corpus[n + 1], a).raised
       THEN /\ err' = "KeyError"
            /\ pc' = "raised"
            /\ UNCHANGED locals
       ELSE /\ sampled_alignments' = alignments
            /\ total_count' = prob_of_alignments(corpus[n + 1], alignments)
            /\ n' = n + 1
            /\ pc' = "collect"
            /\ UNCHANGED <<counts, err>>
  /\ UNCHANGED <<inputs, tables, alignment_table, k, warned>>

\* train, lines 285-298: the counts of one candidate of the current pair
Collect ==
  /\ pc = "collect"
  /\ \E a \in sampled_alignments :
       LET sent == corpus[n]
           count == prob_t_a_given_s(sent, a)
       IN  IF total_count = Zero
           THEN /\ err' = "ZeroDivisionError"
                /\ pc' = "raised"
                /\ UNCHANGED locals
           ELSE IF \E j \in 1 .. Len(sent.words) : MissingClass(sent, a, j)
           THEN /\ err' = "KeyError"
                /\ pc' = "raised"
                /\ UNCHANGED locals
           ELSE /\ counts' = CollectCounts(counts, Div(count, total_count), sent, a)
                /\ sampled_alignments' = sampled_alignments \ {a}
                /\ pc' = IF sampled_alignments' = {} THEN "corpus" ELSE "collect"
                /\ UNCHANGED <<n, total_count, err>>
  /\ UNCHANGED <<inputs, tables, alignment_table, k, warned>>

\* train, lines 300-310: the M step, once every sentence pair is collected
Maximize ==
  /\ pc = "corpus"
  /\ n = Len(corpus)
  /\ LET reset == ResetForMStep
         failed == MStepDivisionByZero(counts)
         done(stages) == failed \notin stages
     IN  /\ alignment_table' = RetainedAlignmentTable(alignment_table, reset)
         /\ translation_table' =
              IF done({"lexical"})
              THEN maximize_lexical_translation_probabilities(reset.translation_table, counts)
              ELSE reset.translation_table
         /\ head_distortion_table' =
              IF done({"lexical", "distortion"})
              THEN maximize_head_distortion_probabilities(reset.head_distortion_table, counts)
              ELSE reset.head_distortion_table
         /\ non_head_distortion_table' =
              IF done({"lexical", "distortion"})
              THEN maximize_non_head_distortion_probabilities(
                     reset.non_head_distortion_table, counts)
              ELSE reset.non_head_distortion_table
         /\ fertility_table' =
              IF done({"lexical", "distortion", "fertility"})
              THEN maximize_fertility_probabilities(reset.fertility_table, counts)
              ELSE reset.fertility_table
         /\ p1' = IF failed = "none" THEN maximize_null_generation_probabilities(counts)
                  ELSE reset.p1
         /\ err' = IF failed = "none" THEN err ELSE "ZeroDivisionError"
         /\ k' = IF failed = "none" THEN k + 1 ELSE k
         /\ pc' = IF failed = "none" THEN AfterPass(k + 1) ELSE "raised"
  /\ UNCHANGED <<inputs, locals, warned>>

Next == Construct \/ Train \/ Sample \/ Collect \/ Maximize

Spec == Init /\ [][Next]_vars

(***************************************************************************)
(* Properties.                                                             *)
(***************************************************************************)
\* the constructor took its tables from Model 3 and set the distortion
\* tables uniformly (lines 183-188 have run)
Bootstrapped == pc # "construct" /\ probability_tables = <<>>

\* train has returned and the constructor has not yet called it again: counts
\* still holds the counts of the iteration the tables were estimated from
JustTrained == k >= 1 /\ pc \in {"train", "done"}

\* every value readable from table (stored or default) is at least the floor
AtLeastFloor(table) == \A x \in DOMAIN table : Le(MIN_PROB, table[x])

FloorHolds ==
  /\ AtLeastFloor(translation_table)
  /\ AtLeastFloor(fertility_table)
  /\ AtLeastFloor(head_distortion_table)
  /\ AtLeastFloor(non_head_distortion_table)

\* C1 as stated: after the initialisation from Model 3 with uniform distortion
\* tables, whatever the longest target length, and after every call to train,
\* every value readable from the lexical, fertility, head and non-head
\* distortion tables is at least MIN_PROB.
C1_FloorAlways == (Bootstrapped \/ k >= 1) => FloorHolds

\* C1 amended: the same, provided the uniform initial value 1 / (2 * (maxM - 1))
\* is not below MIN_PROB (set_uniform_distortion_probabilities did not warn):
\* after such an initialisation and after every call to train, every value
\* readable from the four tables is at least MIN_PROB.
C1_FloorUnlessWarned == ((Bootstrapped /\ ~warned) \/ k >= 1) => FloorHolds

\* train has returned and clamped an estimate count / marginal below the floor
C1_Witness ==
  /\ JustTrained
  /\ \E x \in DOMAIN counts.t_given_s :
       /\ Lt(Div(counts.t_given_s[x], counts.any_t_given_s[MarginalKey(x)]), MIN_PROB)
       /\ translation_table[x] = MIN_PROB
  /\ \E x \in DOMAIN counts.head_distortion : head_distortion_table[x] = MIN_PROB

\* C2: for every candidate and every target position not aligned to NULL, the
\* displacement dj that update_distortion counts (and prob_t_a_given_s looks
\* up) is never 0, for head words and for non-head words.
C2_DisplacementNonzero ==
  /\ \A x \in DOMAIN counts.head_distortion : x[1] # 0
  /\ \A x \in DOMAIN counts.non_head_distortion : x[1] # 0

\* C3: a call to train leaves the alignment table as it was, over any number
\* of consecutive calls: once the constructor has set it, no step changes it.
C3_AlignmentTableKept == [][pc # "construct" => alignment_table' = alignment_table]_vars

\* two calls of train have returned and the alignment table is the one the
\* constructor set, not the table reset_probabilities makes
C3_Witness ==
  /\ k >= 2
  /\ alignment_table # reset_probabilities.alignment_table
  /\ translation_table # EmptyTable

\* count_p1 / (count_p1 + count_p0) clamped into [MIN_PROB, 1 - MIN_PROB]
ClampedNullEstimate ==
  LET estimate == Div(counts.p1, Add(counts.p1, counts.p0))
  IN  IF Lt(estimate, MIN_PROB) THEN MIN_PROB
      ELSE IF Lt(Sub(One, MIN_PROB), estimate) THEN Sub(One, MIN_PROB)
      ELSE estimate

\* C4: after every M step, p1 is count_p1 / (count_p1 + count_p0) clamped into
\* [MIN_PROB, 1 - MIN_PROB]; so MIN_PROB <= p1 <= 1 - MIN_PROB, p0 = 1 - p1 is
\* at least MIN_PROB and p0 + p1 = 1, also when count_p0 is negative.
C4_NullGenerationClamped ==
  /\ JustTrained => p1 = ClampedNullEstimate
  /\ k >= 1 =>
       /\ Le(MIN_PROB, p1) /\ Le(p1, Sub(One, MIN_PROB))
       /\ Le(MIN_PROB, Sub(One, p1))
       /\ Add(Sub(One, p1), p1) = One

\* an M step has run on a negative count_p0 and clipped p1 at 1 - MIN_PROB
C4_Witness ==
  /\ JustTrained
  /\ Lt(counts.p0, Zero)
  /\ p1 = Sub(One, MIN_PROB)
  /\ Lt(One, Div(counts.p1, Add(counts.p1, counts.p0)))

\* C5: training runs exactly `iterations` E step / M step pairs in sequence,
\* each on a fresh Counts; no table value changes while the corpus pass is
\* scoring and accumulating, and the tables change only in the M step, which
\* begins once the last sentence pair has been accumulated.
C5_DiscreteIterations ==
  /\ [](k <= iterations /\ (pc = "done" => k = iterations))
  /\ [][pc = "train" => counts' = Counts /\ n' = 0]_vars
  /\ [][k' # k => k' = k + 1 /\ pc = "corpus" /\ n = Len(corpus)]_vars
  /\ [][(pc \in {"train", "collect"} \/ (pc = "corpus" /\ n < Len(corpus)))
          => tables' = tables]_vars
  /\ [][(pc # "construct" /\ tables' # tables)
          => (pc = "corpus" /\ n = Len(corpus) /\ sampled_alignments = {})]_vars

\* the constructor has finished two iterations over a corpus of two pairs
C5_Witness ==
  /\ pc = "done"
  /\ err = "none"
  /\ iterations = 2
  /\ k = 2
  /\ Len(corpus) = 2
  /\ counts.t_given_s # EmptyTable

\* the tables are as the constructor's initialisation left them
InitialTables == Bootstrapped /\ k = 0 /\ err # "ZeroDivisionError"

\* C6: with maxM the longest target length, after
\* set_uniform_distortion_probabilities every head and non-head distortion
\* lookup with a displacement in [-(maxM-1), maxM-1] other than 0 returns
\* 1 / (2 * (maxM - 1)), for every source class key (each class id of the
\* source lookup and the key None of "no previous cept") and every target
\* class id; when maxM <= 1 the initial value is the floor.
C6_UniformInitialisation ==
  InitialTables =>
    LET max_m == longest_target_sentence_length(corpus)
        expected == IF max_m > 1 THEN <<1, 2 * (max_m - 1)>> ELSE MIN_PROB
    IN  /\ \A dj \in ((1 - max_m) .. (max_m - 1)) \ {0} :
             \A t_cls \in get_unique_word_classes(trg_classes) :
               /\ Lookup(non_head_distortion_table, <<dj, t_cls>>, MIN_PROB) = expected
               /\ \A s_cls \in get_unique_word_classes(src_classes) \cup {NoClass} :
                    Lookup(head_distortion_table, <<dj, s_cls, t_cls>>, MIN_PROB) = expected
        /\ max_m <= 1 =>
             /\ \A x \in DOMAIN head_distortion_table : head_distortion_table[x] = MIN_PROB
             /\ \A x \in DOMAIN non_head_distortion_table :
                  non_head_distortion_table[x] = MIN_PROB

\* C7: every division of a training iteration has a nonzero denominator, for
\* every corpus: train never raises a division error.
C7_NoDivisionByZero == err # "ZeroDivisionError"

\* a word of the corpus has no entry in its word class lookup
CorpusWordWithoutClass ==
  \E i \in 1 .. Len(corpus) :
    \/ \E j \in 1 .. Len(corpus[i].words) : corpus[i].words[j] \notin DOMAIN trg_classes
    \/ \E j \in 1 .. Len(corpus[i].mots) : corpus[i].mots[j] \notin DOMAIN src_classes

\* C8: if a word of the corpus has no entry in its word class lookup, training
\* ends with a lookup error: it never completes.
C8_MissingClassRaises == (CorpusWordWithoutClass /\ iterations >= 1) => pc # "done"

\* every stored entry of table lies in [MIN_PROB, 1]
InUnitRange(table) == \A x \in DOMAIN table : Le(MIN_PROB, table[x]) /\ Le(table[x], One)

TablesInRange ==
  /\ InUnitRange(translation_table)
  /\ InUnitRange(fertility_table)
  /\ InUnitRange(head_distortion_table)
  /\ InUnitRange(non_head_distortion_table)
  /\ Le(MIN_PROB, p1) /\ Le(p1, Sub(One, MIN_PROB))

\* the candidates of the current sentence pair that prob_t_a_given_s has
\* scored against the current tables and whose class lookups all succeed
ScoredCandidates ==
  IF pc = "collect"
  THEN {a \in sampled_alignments :
          \A j \in 1 .. Len(corpus[n].words) : ~MissingClass(corpus[n], a, j)}
  ELSE {}

RECURSIVE Product(_)
Product(factors) ==
  IF factors = <<>> THEN One ELSE Mul(Head(factors), Product(Tail(factors)))

\* the null generation factor without its early return
FullNullFactor(sent, a) ==
  Combination(NullPowers(sent, a), Len(sent.words), fertility_of_i(a, 0), 1)

FertilityFactors(sent, a) == [i \in 1 .. Len(sent.mots) |-> FertilityFactor(sent, a, i)]

\* the product of all the factors of the candidate, with no early return
CompleteProduct(sent, a) ==
  Product(<<FullNullFactor(sent, a)>>
          \o FertilityFactors(sent, a)
          \o [j \in 1 .. Len(sent.words) |-> lexical_translation_term(sent, a, j)]
          \o [j \in 1 .. Len(sent.words) |-> distortion_term(sent, a, j)])

\* scoring the candidate takes an early return of the floor
EarlyAbort(sent, a) ==
  \/ Lt(NullPowers(sent, a), MIN_PROB)
  \/ \E i \in 1 .. Len(sent.mots) :
       Lt(Product(SubSeq(FertilityFactors(sent, a), 1, i)), MIN_PROB)
  \/ Score(sent, a).aborted

FertilityFactorsAtMostOne(sent, a) ==
  \A i \in 1 .. Len(sent.mots) : Le(FertilityFactor(sent, a, i), One)

OtherFactorsAtMostOne(sent, a) ==
  /\ Le(null_generation_term(sent, a), One)
  /\ \A j \in 1 .. Len(sent.words) :
       /\ Le(lexical_translation_term(sent, a, j), One)
       /\ Le(distortion_term(sent, a, j), One)

\* C9 as stated: with every table entry in [MIN_PROB, 1] and p1 in
\* [MIN_PROB, 1 - MIN_PROB], every factor prob_t_a_given_s multiplies in (the
\* null generation term, the fertility term and each of its per-position
\* factors, each lexical and each distortion term) is at most 1, and an early
\* return of the floor is taken only when the complete product is below the
\* floor.
C9_FactorsOnlyAttenuate ==
  TablesInRange =>
    \A a \in ScoredCandidates :
      /\ OtherFactorsAtMostOne(corpus[n], a)
      /\ FertilityFactorsAtMostOne(corpus[n], a)
      /\ Le(fertility_term(corpus[n], a), One)
      /\ EarlyAbort(corpus[n], a) => Lt(CompleteProduct(corpus[n], a), MIN_PROB)

\* C9 amended: under the same conditions the null generation term, each
\* lexical term and each distortion term is at most 1, and a per-position
\* fertility factor is at most fertility_i! (it exceeds 1 when fertility_i >= 2
\* and the table entry exceeds 1 / fertility_i!).  The running product can
\* grow at a fertility factor and, inside the null generation term, at the
\* combination factor, which is multiplied in after that term's floor test.
\* For a candidate whose fertility factors are all at most 1 the fertility
\* term is at most 1; if moreover no target word is aligned to NULL (the
\* combination factor is 1), an early return of the floor is taken only when
\* the complete product is below the floor.
C9_FactorsBounded ==
  TablesInRange =>
    \A a \in ScoredCandidates :
      /\ OtherFactorsAtMostOne(corpus[n], a)
      /\ \A i \in 1 .. Len(corpus[n].mots) :
           Le(FertilityFactor(corpus[n], a, i), FromInt(factorial(fertility_of_i(a, i))))
      /\ FertilityFactorsAtMostOne(corpus[n], a) =>
           /\ Le(fertility_term(corpus[n], a), One)
           /\ (fertility_of_i(a, 0) = 0 /\ EarlyAbort(corpus[n], a))
                => Lt(CompleteProduct(corpus[n], a), MIN_PROB)

\* a scored candidate with more NULL-aligned words than the others (its
\* powers of p1 and p0 exceed 1), and one whose scoring returned early
C9_Witness ==
  /\ TablesInRange
  /\ \E a \in ScoredCandidates :
       /\ Lt(One, NullPowers(corpus[n], a))
       /\ FertilityFactorsAtMostOne(corpus[n], a)
       /\ EarlyAbort(corpus[n], a)
  /\ \E a \in ScoredCandidates :
       /\ fertility_of_i(a, 0) = 0
       /\ FertilityFactorsAtMostOne(corpus[n], a)
       /\ Score(corpus[n], a).aborted

\* every value readable from table is the floored estimate of its key's count,
\* and the floor where the key has no count
EstimatedFrom(table, count, marginal) ==
  \A x \in DOMAIN table \cup DOMAIN count :
    Lookup(table, x, MIN_PROB) =
      IF x \in DOMAIN count
      THEN LET estimate == Div(count[x], marginal[Tail(x)])
           IN  IF Lt(estimate, MIN_PROB) THEN MIN_PROB ELSE estimate
      ELSE MIN_PROB

\* C10: after a call to train every lexical, fertility, head and non-head
\* distortion entry is determined by that iteration's counts alone: it is
\* max(count / marginal, MIN_PROB) where its key received a count and reads as
\* MIN_PROB where it received none, whatever its value before the call.
C10_WholesaleReplacement ==
  JustTrained =>
    /\ EstimatedFrom(translation_table, counts.t_given_s, counts.any_t_given_s)
    /\ EstimatedFrom(fertility_table, counts.fertility, counts.fertility_for_any_phi)
    /\ EstimatedFrom(head_distortion_table, counts.head_distortion,
                     counts.head_distortion_for_any_dj)
    /\ EstimatedFrom(non_head_distortion_table, counts.non_head_distortion,
                     counts.non_head_distortion_for_any_dj)

\* train has returned; a head distortion entry the caller supplied as 1 had no
\* count and reads as the floor, and so does a lexical entry supplied as 1
C10_Witness ==
  /\ JustTrained
  /\ probability_tables # <<>>
  /\ probability_tables[1].head_distortion_table[<<3, 1, 1>>] = One
  /\ Lookup(head_distortion_table, <<3, 1, 1>>, MIN_PROB) = MIN_PROB
  /\ counts.head_distortion # EmptyTable
  /\ \E x \in DOMAIN probability_tables[1].translation_table :
       /\ x \notin DOMAIN counts.t_given_s
       /\ Lookup(translation_table, x, MIN_PROB) = MIN_PROB

\* the number of target positions of candidate a aligned to source position 0
NullAligned(a) == Cardinality({j \in DOMAIN a : a[j] = 0})

\* the counts of candidate a have just been added: a has left the candidates
\* still to be collected and nothing was raised
Collected(a) ==
  /\ pc = "collect"
  /\ pc' # "raised"
  /\ a \in sampled_alignments
  /\ a \notin sampled_alignments'

\* C11: whenever the counts of a sampled candidate are collected, counts.null
\* as update_null_generation reads it (nothing after the position loop writes
\* it) is the number of that candidate's target positions aligned to source
\* position 0, whatever it was before, and the candidate adds null * weight to
\* counts.p1 and (m - 2 * null) * weight to counts.p0, where weight is its
\* probability divided by the sentence's normaliser.
C11_NullGenerationAccumulation ==
  [][pc = "collect" /\ pc' # "raised" =>
       \E a \in sampled_alignments :
         LET weight == Div(prob_t_a_given_s(corpus[n], a), total_count)
             m == Len(corpus[n].words)
         IN  /\ Collected(a)
             /\ counts'.null = NullAligned(a)
             /\ counts'.p1 = Add(counts.p1, Mul(FromInt(NullAligned(a)), weight))
             /\ counts'.p0 = Add(counts.p0,
                                Mul(FromInt(m - 2 * NullAligned(a)), weight))]_vars

\* a candidate with no NULL-aligned word was collected after one that had
\* some: count_p1 is positive while the counter reads 0
C11_Witness ==
  /\ pc \in {"collect", "corpus"}
  /\ counts.null = 0
  /\ Lt(Zero, counts.p1)
  /\ Lt(Zero, counts.p0)

RECURSIVE SumOver(_, _)
\* the sum of table[x] over the keys x in keys
SumOver(table, keys) ==
  IF keys = {} THEN Zero
  ELSE LET x == CHOOSE y \in keys : TRUE
       IN  Add(table[x], SumOver(table, keys \ {x}))

\* the keys of count that are conditioned on the marginal key y
CountedUnder(count, y) == {x \in DOMAIN count : Tail(x) = y}

\* every key of count has its marginal, and each marginal is the sum of the
\* counts conditioned on its key
MarginalOf(count, marginal) ==
  /\ \A x \in DOMAIN count : Tail(x) \in DOMAIN marginal
  /\ \A y \in DOMAIN marginal :
       marginal[y] = SumOver(count, CountedUnder(count, y))

\* the estimates count / marginal of each conditioning key sum to 1
UnflooredSumToOne(count, marginal) ==
  \A y \in DOMAIN marginal :
    marginal[y] # Zero =>
      SumOver([x \in CountedUnder(count, y) |-> Div(count[x], marginal[y])],
              CountedUnder(count, y)) = One

\* after train, the lexical entries of the target words counted with a source
\* word sum to at least 1 and at most 1 + (number of them) * MIN_PROB
FlooredLexicalSums ==
  \A y \in DOMAIN counts.any_t_given_s :
    LET keys == CountedUnder(counts.t_given_s, y)
        total == SumOver(translation_table, keys)
    IN  /\ Le(One, total)
        /\ Le(total, Add(One, Mul(FromInt(Cardinality(keys)), MIN_PROB)))

\* C12: in every state of an iteration, in exact arithmetic, each marginal of
\* the counts is the sum
\* of the matching counts (any_t_given_s over t, fertility_for_any_phi over
\* phi, head_distortion_for_any_dj and non_head_distortion_for_any_dj over
\* dj), so the unfloored estimates of each conditioning key sum to exactly 1;
\* and once train has returned, the floored lexical estimates of a source
\* word s sum to at least 1 and at most 1 + (number of counted t for s) *
\* MIN_PROB.
C12_MarginalConsistency ==
  /\ MarginalOf(counts.t_given_s, counts.any_t_given_s)
  /\ MarginalOf(counts.fertility, counts.fertility_for_any_phi)
  /\ MarginalOf(counts.head_distortion, counts.head_distortion_for_any_dj)
  /\ MarginalOf(counts.non_head_distortion, counts.non_head_distortion_for_any_dj)
  /\ UnflooredSumToOne(counts.t_given_s, counts.any_t_given_s)
  /\ UnflooredSumToOne(counts.fertility, counts.fertility_for_any_phi)
  /\ UnflooredSumToOne(counts.head_distortion, counts.head_distortion_for_any_dj)
  /\ UnflooredSumToOne(counts.non_head_distortion,
                       counts.non_head_distortion_for_any_dj)
  /\ JustTrained => FlooredLexicalSums

\* train has returned from counts in which a source word was counted with two
\* target words, one of whose estimates was raised to the floor (the floored
\* sum exceeds 1), and a class pair and a target class were each counted
\* under two displacements
C12_Witness ==
  /\ JustTrained
  /\ \E y \in DOMAIN counts.any_t_given_s :
       /\ Cardinality(CountedUnder(counts.t_given_s, y)) >= 2
       /\ Lt(One, SumOver(translation_table, CountedUnder(counts.t_given_s, y)))
  /\ \E y \in DOMAIN counts.head_distortion_for_any_dj :
       Cardinality(CountedUnder(counts.head_distortion, y)) >= 2
  /\ \E y \in DOMAIN counts.fertility_for_any_phi :
       Cardinality(CountedUnder(counts.fertility, y)) >= 2

====
